---------------------------- MODULE Spec2Model ----------------------------
(***************************************************************************)
(* Model of the weekly stock agent: StockAgent.py (prices, news,           *)
(* sentiment, recommendations, persistence, e-mail report, feedback) and   *)
(* weekly_stock_agent.py (ranked top-2 variant).                           *)
(*                                                                         *)
(* Numbers.  An input price is an integer number of sixteenths of a rupee  *)
(* (1600 is 100.0, 1703 is 106.4375): such prices and their differences    *)
(* are exact binary floats, as the code's arithmetic is on floats.  A      *)
(* rounded price or percent change (Python round(x, 2)) is an integer      *)
(* number of hundredths (10644 is 106.44, 600 is 6.0).                     *)
(* Text.  A text is a sequence of one-character strings, so that           *)
(* lower(), strip(), slicing and substring search are computed.            *)
(***************************************************************************)
EXTENDS Integers, Sequences, FiniteSets, TLC

VARIABLES
    pc,                 \* position in main() / run_stock_agent()
    i,                  \* index of the ticker the current loop is at
    run,                \* ordinal of the current run; also the clock datetime.now() reads
    stock_data,         \* dict ticker -> price series (main), built by fetch_stock_data
    priceOutcome,       \* history: what yf.download did for each ticker so far
    news,               \* the news text of the ticker being analysed
    sentiment_analysis, \* dict ticker -> sentiment text
    recommendations,    \* the list make_recommendations / analyze_returns returned
    matched,            \* weekly variant: the unsorted matches analyze_returns collects
    recfile,            \* recommendations.txt: [exists, lines]
    file0,              \* history: recommendations.txt as the run found it
    storeStatus,        \* history: "none", "ok" or "failed" (store_recommendations)
    mail,               \* [status, body] of the report e-mail of this run
    feedback,           \* feedback.txt: sequence of lines
    trace               \* history: the steps of this run, in the order they happened

vars == <<pc, i, run, stock_data, priceOutcome, news, sentiment_analysis,
          recommendations, matched, recfile, file0, storeStatus, mail,
          feedback, trace>>

---------------------------------------------------------------------------
(* Bounds of the model *)

NumTickers == 2

NumWeekly == 3

MaxBars == 2

MaxRuns == 2

---------------------------------------------------------------------------
(* Program constants *)

\* percent_change >= 5 (StockAgent.py:102, weekly_stock_agent.py:53)
MinChange == 5

\* len(data) < 2 (StockAgent.py:93)
MinBars == 2

\* len(data) < 5 (weekly_stock_agent.py:41)
WeeklyMinBars == 5

\* [:2] (weekly_stock_agent.py:62)
TopN == 2

\* sentiment[:50] (StockAgent.py:164)
SummaryWidth == 50

AllTickers == <<"RELIANCE.NS", "TCS.NS", "INFY.NS", "AXISBANK.NS", "SBIN.NS">>

tickers == SubSeq(AllTickers, 1, NumTickers)

Nifty100 == <<"RELIANCE.NS", "TCS.NS", "INFY.NS", "HDFCBANK.NS", "ICICIBANK.NS",
              "LT.NS", "KOTAKBANK.NS", "HINDUNILVR.NS", "SBIN.NS", "AXISBANK.NS">>

get_nifty_100_stocks == SubSeq(Nifty100, 1, NumWeekly)

Range(s) == {s[k] : k \in 1..Len(s)}

---------------------------------------------------------------------------
(* Text *)

UpperChars == <<"A", "B", "C", "D", "E", "F", "G", "H", "I", "J", "K", "L", "M",
                "N", "O", "P", "Q", "R", "S", "T", "U", "V", "W", "X", "Y", "Z">>

LowerChars == <<"a", "b", "c", "d", "e", "f", "g", "h", "i", "j", "k", "l", "m",
                "n", "o", "p", "q", "r", "s", "t", "u", "v", "w", "x", "y", "z">>

WhiteChars == {" ", "\n", "\t"}

\* str.lower(), one character
LowerChar(c) ==
    IF \E k \in 1..Len(UpperChars) : UpperChars[k] = c
    THEN LowerChars[CHOOSE k \in 1..Len(UpperChars) : UpperChars[k] = c]
    ELSE c

\* str.lower()
Lower(s) == [k \in 1..Len(s) |-> LowerChar(s[k])]

\* needle in hay
Contains(needle, hay) ==
    \E k \in 0..(Len(hay) - Len(needle)) :
        SubSeq(hay, k + 1, k + Len(needle)) = needle

\* str.strip()
Strip(s) ==
    LET keep == {k \in 1..Len(s) : s[k] \notin WhiteChars}
        lo == CHOOSE k \in keep : \A j \in keep : k <= j
        hi == CHOOSE k \in keep : \A j \in keep : k >= j
    IN  IF keep = {} THEN <<>> ELSE SubSeq(s, lo, hi)

\* s[:n]
Take(s, n) == SubSeq(s, 1, IF Len(s) < n THEN Len(s) ELSE n)

Positive == <<"p", "o", "s", "i", "t", "i", "v", "e">>

PositiveOutlook ==
    <<"P", "o", "s", "i", "t", "i", "v", "e", " ", "o", "u", "t", "l", "o", "o", "k">>

VeryNegative == <<"v", "e", "r", "y", " ", "n", "e", "g", "a", "t", "i", "v", "e">>

StronglyPositive ==
    <<"S", "t", "r", "o", "n", "g", "l", "y", " ", "p", "o", "s", "i", "t", "i", "v",
      "e", " ", "o", "u", "t", "l", "o", "o", "k">>

\* a completion as the provider sends it, before strip()
RawStronglyPositive == <<" ">> \o StronglyPositive \o <<"\n">>

SentimentFailed ==
    <<"S", "e", "n", "t", "i", "m", "e", "n", "t", " ", "a", "n", "a", "l", "y", "s",
      "i", "s", " ", "f", "a", "i", "l", "e", "d", ".">>

NotAvailable == <<"N", "/", "A">>

---------------------------------------------------------------------------
(* Numbers *)

Abs(x) == IF x < 0 THEN -x ELSE x

\* a plausible slip: truncation instead of rounding
RoundDown(num, den) == num \div den

\* num/den (den > 0) rounded to the nearest integer, a tie to the even one:
\* what round() returns for a float that holds its value exactly
RoundHalfEven(num, den) ==
    LET q == num \div den
        r == num - q * den
    IN  IF 2 * r < den THEN q
        ELSE IF 2 * r > den THEN q + 1
        ELSE IF q % 2 = 0 THEN q ELSE q + 1

\* num/den to hundredths: round(x, 2) seen as a number of hundredths
RoundTo2(num, den) == RoundHalfEven(100 * num, den)

\* round(price, 2), price in sixteenths
round_price(p) == RoundTo2(p, 16)

\* round(((close - open) / open) * 100, 2), open # 0
round_change(open, close) == RoundTo2(100 * (close - open), open)

\* ((close - open) / open) * 100 >= MinChange, open > 0
change_at_least_strict(open, close) == 100 * (close - open) > MinChange * open

change_at_least(open, close) == 100 * (close - open) >= MinChange * open

---------------------------------------------------------------------------
(* Price series: a DataFrame of daily bars with Open and Close *)

Bar(o, c) == [Open |-> o, Close |-> c]

\* n bars that open the window at o and close it at c
SeriesOf(n, o, c) ==
    [k \in 1..n |-> Bar(IF k = 1 THEN o ELSE c, IF k = n THEN c ELSE o)]

\* <<open of the first bar, close of the last bar>>
PricePairs ==
    { <<1600, 1696>>,     \* 100.0 -> 106.0     6%
      <<1600, 1632>>,     \* 100.0 -> 102.0     2%
      <<1600, 1680>>,     \* 100.0 -> 105.0     5.00%
      <<10000, 10499>>,   \* 625.0 -> 656.1875  4.99%
      <<1601, 1703>>,     \* 100.0625 -> 106.4375  6.371...%
      <<66, 70>>,         \* 4.125 -> 4.375    6.06...%, both prices at a tie
      <<0, 1600>> }       \* a zero open: ZeroDivisionError

Gain6 == <<1600, 1696>>

Gain2 == <<1600, 1632>>

\* every length at one pair, and every pair at the deciding length
SeriesSet(pairs) ==
    {SeriesOf(n, Gain6[1], Gain6[2]) : n \in 0..MaxBars}
        \cup {SeriesOf(MinBars, p[1], p[2]) : p \in pairs}

---------------------------------------------------------------------------
(* Dicts: a function whose DOMAIN is the set of keys.  Iteration follows   *)
(* insertion order, which for stock_data is the order of the ticker list.  *)

EmptyDict == [t \in {} |-> <<>>]

\* d[k] = v
Put(d, k, v) == (k :> v) @@ d

\* d.get(k, default)
Get(d, k, default) == IF k \in DOMAIN d THEN d[k] ELSE default

---------------------------------------------------------------------------
(* StockAgent.py: the functions *)

\* One pass of the loop of fetch_stock_data for ticker t.  got is what
\* yf.download did: [kind |-> "raise"] or [kind |-> "data", data |-> series].
\* A plausible slip: the except branch records an empty series.
fetch_one_recording_failure(sd, t, got) ==
    IF got.kind = "raise"
    THEN [stock_data |-> Put(sd, t, <<>>), escaped |-> FALSE]
    ELSE [stock_data |-> Put(sd, t, got.data), escaped |-> FALSE]

fetch_one(sd, t, got) ==
    IF got.kind = "raise"
    THEN [stock_data |-> sd, escaped |-> FALSE]                  \* except: log only
    ELSE [stock_data |-> Put(sd, t, got.data), escaped |-> FALSE]

\* fetch_newsdata: the text returned for each outcome of the request
fetch_newsdata(stock_name, got) ==
    CASE got = "articles" -> <<"articles", stock_name>>
      [] got = "no_results" -> <<"No news articles found for", stock_name>>
      [] got = "error" -> <<"Error fetching news for", stock_name>>

\* analyze_sentiment: got is [kind |-> "raise"] or [kind |-> "text", text |-> completion]
analyze_sentiment(stock_name, news_text, got) ==
    IF got.kind = "raise" THEN SentimentFailed ELSE Strip(got.text)

\* A plausible slip: the substring test without lower()
is_positive_case_sensitive(sentiment) == Contains(Positive, sentiment)

\* "positive" in sentiment.lower()
is_positive(sentiment) == Contains(Positive, Lower(sentiment))

\* The body of the loop of make_recommendations for one item of stock_data:
\* the records it appends (none or one)
recommendation_for(ticker, data, sa) ==
    IF Len(data) = 0 \/ Len(data) < MinBars
    THEN <<>>                                       \* Insufficient data: continue
    ELSE LET open_price == data[1].Open
             close_price == data[Len(data)].Close
             sentiment == Get(sa, ticker, <<>>)
         IN  IF open_price = 0
             THEN <<>>                              \* ZeroDivisionError, caught
             ELSE IF change_at_least(open_price, close_price) /\ is_positive(sentiment)
                  THEN << [ticker |-> ticker,
                           change |-> round_change(open_price, close_price),
                           entry_price |-> round_price(open_price),
                           exit_price |-> round_price(close_price),
                           sentiment |-> sentiment] >>
                  ELSE <<>>

RECURSIVE recommendations_from(_, _, _)
recommendations_from(k, sd, sa) ==
    IF k > Len(tickers) THEN <<>>
    ELSE (IF tickers[k] \in DOMAIN sd
          THEN recommendation_for(tickers[k], sd[tickers[k]], sa)
          ELSE <<>>) \o recommendations_from(k + 1, sd, sa)

make_recommendations(sd, sa) == recommendations_from(1, sd, sa)

\* f"{datetime.now()} | {rec}\n"
RecLine(now, rec) == [time |-> now, rec |-> rec]

\* What can happen to the append: nothing, open() fails, or the write of
\* line written + 1 fails
StoreOutcomes(recs) ==
    {[fail |-> "none", written |-> Len(recs)], [fail |-> "open", written |-> 0]}
        \cup {[fail |-> "write", written |-> k] : k \in 0..(Len(recs) - 1)}

\* A plausible slip: no try/except around the append
store_recommendations_uncaught(file, recs, now, got) ==
    IF got.fail = "open"
    THEN [file |-> file, status |-> "failed", escaped |-> TRUE]
    ELSE [file |-> [exists |-> TRUE,
                    lines |-> file.lines \o
                        [k \in 1..got.written |-> RecLine(now, recs[k])]],
          status |-> IF got.fail = "none" THEN "ok" ELSE "failed",
          escaped |-> got.fail # "none"]

\* A plausible slip: open(..., "w")
store_recommendations_truncating(file, recs, now, got) ==
    IF got.fail = "open"
    THEN [file |-> file, status |-> "failed", escaped |-> FALSE]
    ELSE [file |-> [exists |-> TRUE,
                    lines |-> [k \in 1..got.written |-> RecLine(now, recs[k])]],
          status |-> IF got.fail = "none" THEN "ok" ELSE "failed",
          escaped |-> FALSE]

store_recommendations(file, recs, now, got) ==
    IF got.fail = "open"
    THEN [file |-> file, status |-> "failed", escaped |-> FALSE]
    ELSE [file |-> [exists |-> TRUE,                   \* mode "a" creates the file
                    lines |-> file.lines \o
                        [k \in 1..got.written |-> RecLine(now, recs[k])]],
          status |-> IF got.fail = "none" THEN "ok" ELSE "failed",
          escaped |-> FALSE]                           \* except Exception: log only

\* feedback_loop: got is [kind |-> "raise"] or [kind |-> "input", text |-> line typed]
feedback_loop(fb, now, got) ==
    IF got.kind = "raise"
    THEN [feedback |-> fb, escaped |-> FALSE]
    ELSE [feedback |-> Append(fb, [time |-> now, text |-> got.text]), escaped |-> FALSE]

(* The e-mail body, a sequence of segments *)

NoPicks == [kind |-> "No stock recommendations this week."]

PicksTitle == [kind |-> "Weekly Stock Recommendations:"]

PickBlock(rec) == [kind |-> "pick", rec |-> rec]

TableHead ==
    << [kind |-> "Summary of All Analyzed Stocks:"],
       [kind |-> "Ticker % Change Sentiment"],
       [kind |-> "------------------------------------------"] >>

\* One pass of the summary loop of send_email_report: the rows it adds
summary_row(ticker, data, sa) ==
    IF Len(data) = 0
    THEN <<>>                                       \* iloc[0]: IndexError, caught
    ELSE LET open_price == data[1].Open
             close_price == data[Len(data)].Close
         IN  IF open_price = 0
             THEN <<>>                              \* ZeroDivisionError, caught
             ELSE << [kind |-> "row",
                      ticker |-> ticker,
                      change |-> round_change(open_price, close_price),
                      sentiment |-> Take(Get(sa, ticker, NotAvailable), SummaryWidth)] >>

RECURSIVE summary_rows(_, _, _)
summary_rows(k, sd, sa) ==
    IF k > Len(tickers) THEN <<>>
    ELSE (IF tickers[k] \in DOMAIN sd
          THEN summary_row(tickers[k], sd[tickers[k]], sa)
          ELSE <<>>) \o summary_rows(k + 1, sd, sa)

\* A plausible slip: the summary table only when there are recommendations
report_body_no_table(recs, sd, sa) ==
    IF recs = <<>> THEN <<NoPicks>>
    ELSE <<PicksTitle>> \o [k \in 1..Len(recs) |-> PickBlock(recs[k])]
             \o TableHead \o summary_rows(1, sd, sa)

report_body(recs, sd, sa) ==
    (IF recs = <<>> THEN <<NoPicks>>
     ELSE <<PicksTitle>> \o [k \in 1..Len(recs) |-> PickBlock(recs[k])])
        \o TableHead \o summary_rows(1, sd, sa)

\* send_email_report: smtp is "ok" or "raise" (yagmail.SMTP(...) or yag.send(...))
send_email_report(recs, sd, sa, smtp) ==
    [status |-> IF smtp = "ok" THEN "sent" ELSE "failed",
     body |-> report_body(recs, sd, sa),
     escaped |-> FALSE]

\* A plausible slip: feedback asked for before the report is stored and sent
main_next_feedback_first(p, k) ==
    CASE p = "prices" -> IF k < Len(tickers) THEN <<"prices", k + 1>> ELSE <<"news", 1>>
      [] p = "news" -> <<"sentiment", k>>
      [] p = "sentiment" ->
            IF k < Len(tickers) THEN <<"news", k + 1>> ELSE <<"recommend", 0>>
      [] p = "recommend" -> <<"feedback", 0>>
      [] p = "feedback" -> <<"store", 0>>
      [] p = "store" -> <<"email", 0>>
      [] p = "email" -> <<"done", 0>>

\* main: the statement that follows the step at <<p, k>>
main_next(p, k) ==
    CASE p = "prices" -> IF k < Len(tickers) THEN <<"prices", k + 1>> ELSE <<"news", 1>>
      [] p = "news" -> <<"sentiment", k>>
      [] p = "sentiment" ->
            IF k < Len(tickers) THEN <<"news", k + 1>> ELSE <<"recommend", 0>>
      [] p = "recommend" -> <<"store", 0>>
      [] p = "store" -> <<"email", 0>>
      [] p = "email" -> <<"feedback", 0>>
      [] p = "feedback" -> <<"done", 0>>

\* where a step leaves main: an exception that escapes ends the run
After(p, k, escaped) == IF escaped THEN <<"raised", 0>> ELSE main_next(p, k)

---------------------------------------------------------------------------
(* weekly_stock_agent.py: the functions *)

\* One pass of the loop of analyze_returns for one ticker: no try/except, so
\* an exception of yf.download, or a zero open, escapes analyze_returns
analyze_one(found, ticker, got) ==
    IF got.kind = "raise"
    THEN [matched |-> found, escaped |-> TRUE]
    ELSE IF Len(got.data) = 0 \/ Len(got.data) < WeeklyMinBars
    THEN [matched |-> found, escaped |-> FALSE]     \* Insufficient data: continue
    ELSE LET last_monday_price == got.data[1].Open
             friday_price == got.data[Len(got.data)].Close
         IN  IF last_monday_price = 0
             THEN [matched |-> found, escaped |-> TRUE]          \* ZeroDivisionError
             ELSE IF change_at_least(last_monday_price, friday_price)
                  THEN [matched |-> Append(found,
                            [ticker |-> ticker,
                             change |-> round_change(last_monday_price, friday_price),
                             entry_price |-> round_price(last_monday_price),
                             exit_price |-> round_price(friday_price)]),
                        escaped |-> FALSE]
                  ELSE [matched |-> found, escaped |-> FALSE]

\* r put into a list sorted by change descending, after the records that
\* compare equal to it (sorted() is stable)
InsertDescending(sorted, r) ==
    LET before == {k \in 1..Len(sorted) : sorted[k].change >= r.change}
        n == Cardinality(before)
    IN  SubSeq(sorted, 1, n) \o <<r>> \o SubSeq(sorted, n + 1, Len(sorted))

RECURSIVE SortedDescending(_)
SortedDescending(recs) ==
    IF recs = <<>> THEN <<>>
    ELSE InsertDescending(SortedDescending(SubSeq(recs, 1, Len(recs) - 1)),
                          recs[Len(recs)])

\* A plausible slip: truncating before sorting
top_picks_unsorted(found) == SortedDescending(Take(found, TopN))

\* sorted(recommendations, key=lambda x: -x['change'])[:2]
top_picks(found) == Take(SortedDescending(found), TopN)

NoneMet == [kind |-> "No stock met the 5% return criteria last week."]

WeeklyTitle == [kind |-> "Weekly Stock Picks for This Week:"]

SellBy == [kind |-> "Sell by: Friday, 2PM IST"]

\* send_email: smtp is "ok" or "raise"
send_email(picks, smtp) ==
    [status |-> IF smtp = "ok" THEN "sent" ELSE "failed",
     body |-> IF picks = <<>> THEN <<NoneMet>>
              ELSE <<WeeklyTitle>> \o [k \in 1..Len(picks) |-> PickBlock(picks[k])]
                       \o <<SellBy>>,
     escaped |-> FALSE]

\* run_stock_agent: the statement that follows the step at <<p, k>>
run_next(p, k) ==
    CASE p = "w_analyze" ->
            IF k < Len(get_nifty_100_stocks) THEN <<"w_analyze", k + 1>>
            ELSE <<"w_rank", 0>>
      [] p = "w_rank" -> <<"w_email", 0>>
      [] p = "w_email" -> <<"done", 0>>

AfterWeekly(p, k, escaped) == IF escaped THEN <<"raised", 0>> ELSE run_next(p, k)

---------------------------------------------------------------------------
(* What the outside world can answer *)

Raise == [kind |-> "raise"]

Data(series) == [kind |-> "data", data |-> series]

Completion(text) == [kind |-> "text", text |-> text]

Typed(text) == [kind |-> "input", text |-> text]

\* yf.download in a run of main
PriceOutcomes == {Raise} \cup {Data(s) : s \in SeriesSet({Gain6, Gain2})}

FewPriceOutcomes == {Data(<<>>), Data(SeriesOf(MinBars, Gain6[1], Gain6[2]))}

\* yf.download in a run of the weekly variant
WeeklyPriceOutcomes ==
    {Raise}
        \cup {Data(SeriesOf(n, Gain6[1], Gain6[2])) :
                n \in {0, WeeklyMinBars - 1, WeeklyMinBars}}
        \cup {Data(SeriesOf(WeeklyMinBars, p[1], p[2])) : p \in PricePairs}

NewsOutcomes == {"articles", "no_results", "error"}

SentimentOutcomes == {Raise, Completion(RawStronglyPositive), Completion(VeryNegative)}

FewSentimentOutcomes == {Raise, Completion(RawStronglyPositive)}

SmtpOutcomes == {"ok", "raise"}

FeedbackOutcomes == {Raise, Typed("not sure")}

\* What a price outcome is, for the history
OutcomeKind(got) ==
    IF got.kind = "raise" THEN "raise"
    ELSE IF got.data = <<>> THEN "empty" ELSE "data"

Step(name, ticker) == [step |-> name, ticker |-> ticker]

NoFile == [exists |-> FALSE, lines |-> <<>>]

NoMail == [status |-> "none", body |-> <<>>]

\* A record an earlier run leaves in recommendations.txt
EarlierRec ==
    recommendation_for(tickers[1], SeriesOf(MinBars, Gain6[1], Gain6[2]),
                       Put(EmptyDict, tickers[1], StronglyPositive))[1]

\* recommendations.txt as a run can find it
FilesFound == {NoFile, [exists |-> TRUE, lines |-> <<RecLine(0, EarlierRec)>>]}

---------------------------------------------------------------------------
(* StockAgent.main, step by step *)

Init ==
    /\ pc = "prices"
    /\ i = 1
    /\ run = 1
    /\ stock_data = EmptyDict
    /\ priceOutcome = EmptyDict
    /\ news = <<>>
    /\ sentiment_analysis = EmptyDict
    /\ recommendations = <<>>
    /\ matched = <<>>
    /\ recfile \in FilesFound
    /\ file0 = recfile
    /\ storeStatus = "none"
    /\ mail = NoMail
    /\ feedback = <<>>
    /\ trace = <<>>

\* fetch_stock_data, one ticker
FetchStockData(outcomes) ==
    /\ pc = "prices"
    /\ \E got \in outcomes :
        LET t == tickers[i]
            r == fetch_one(stock_data, t, got)
            nx == After(pc, i, r.escaped)
        IN  /\ stock_data' = r.stock_data
            /\ priceOutcome' = Put(priceOutcome, t, OutcomeKind(got))
            /\ trace' = Append(trace, Step("price", t))
            /\ pc' = nx[1]
            /\ i' = nx[2]
    /\ UNCHANGED <<run, news, sentiment_analysis, recommendations, matched,
                   recfile, file0, storeStatus, mail, feedback>>

\* news = fetch_newsdata(ticker, NEWS_API_KEY)
FetchNews ==
    /\ pc = "news"
    /\ \E got \in NewsOutcomes :
        LET t == tickers[i]
            nx == After(pc, i, FALSE)
        IN  /\ news' = fetch_newsdata(t, got)
            /\ trace' = Append(trace, Step("news", t))
            /\ pc' = nx[1]
            /\ i' = nx[2]
    /\ UNCHANGED <<run, stock_data, priceOutcome, sentiment_analysis,
                   recommendations, matched, recfile, file0, storeStatus, mail,
                   feedback>>

\* sentiment_analysis[ticker] = analyze_sentiment(ticker, news); news is dead after it
AnalyzeSentiment(outcomes) ==
    /\ pc = "sentiment"
    /\ \E got \in outcomes :
        LET t == tickers[i]
            nx == After(pc, i, FALSE)
        IN  /\ sentiment_analysis' =
                    Put(sentiment_analysis, t, analyze_sentiment(t, news, got))
            /\ news' = <<>>
            /\ trace' = Append(trace, Step("sentiment", t))
            /\ pc' = nx[1]
            /\ i' = nx[2]
    /\ UNCHANGED <<run, stock_data, priceOutcome, recommendations, matched,
                   recfile, file0, storeStatus, mail, feedback>>

\* recommendations = make_recommendations(stock_data, sentiment_analysis)
MakeRecommendations ==
    /\ pc = "recommend"
    /\ LET nx == After(pc, i, FALSE)
       IN  /\ recommendations' = make_recommendations(stock_data, sentiment_analysis)
           /\ trace' = Append(trace, Step("recommend", ""))
           /\ pc' = nx[1]
           /\ i' = nx[2]
    /\ UNCHANGED <<run, stock_data, priceOutcome, news, sentiment_analysis,
                   matched, recfile, file0, storeStatus, mail, feedback>>

\* store_recommendations(recommendations)
StoreRecommendations ==
    /\ pc = "store"
    /\ \E got \in StoreOutcomes(recommendations) :
        LET r == store_recommendations(recfile, recommendations, run, got)
            nx == After(pc, i, r.escaped)
        IN  /\ recfile' = r.file
            /\ storeStatus' = r.status
            /\ trace' = Append(trace, Step("store", ""))
            /\ pc' = nx[1]
            /\ i' = nx[2]
    /\ UNCHANGED <<run, stock_data, priceOutcome, news, sentiment_analysis,
                   recommendations, matched, file0, mail, feedback>>

\* send_email_report(recommendations, stock_data, sentiment_analysis)
SendEmailReport ==
    /\ pc = "email"
    /\ \E smtp \in SmtpOutcomes :
        LET r == send_email_report(recommendations, stock_data, sentiment_analysis,
                                   smtp)
            nx == After(pc, i, r.escaped)
        IN  /\ mail' = [status |-> r.status, body |-> r.body]
            /\ trace' = Append(trace, Step("email", ""))
            /\ pc' = nx[1]
            /\ i' = nx[2]
    /\ UNCHANGED <<run, stock_data, priceOutcome, news, sentiment_analysis,
                   recommendations, matched, recfile, file0, storeStatus, feedback>>

\* the print loop (no state), then feedback_loop()
FeedbackLoop ==
    /\ pc = "feedback"
    /\ \E got \in FeedbackOutcomes :
        LET r == feedback_loop(feedback, run, got)
            nx == After(pc, i, r.escaped)
        IN  /\ feedback' = r.feedback
            /\ trace' = Append(trace, Step("feedback", ""))
            /\ pc' = nx[1]
            /\ i' = nx[2]
    /\ UNCHANGED <<run, stock_data, priceOutcome, news, sentiment_analysis,
                   recommendations, matched, recfile, file0, storeStatus, mail>>

\* the script is run again: only the two files outlive a run
RunAgain ==
    /\ pc = "done"
    /\ run < MaxRuns
    /\ pc' = "prices"
    /\ i' = 1
    /\ run' = run + 1
    /\ stock_data' = EmptyDict
    /\ priceOutcome' = EmptyDict
    /\ news' = <<>>
    /\ sentiment_analysis' = EmptyDict
    /\ recommendations' = <<>>
    /\ file0' = recfile
    /\ storeStatus' = "none"
    /\ mail' = NoMail
    /\ trace' = <<>>
    /\ UNCHANGED <<matched, recfile, feedback>>

Next ==
    \/ FetchStockData(PriceOutcomes)
    \/ FetchNews
    \/ AnalyzeSentiment(SentimentOutcomes)
    \/ MakeRecommendations
    \/ StoreRecommendations
    \/ SendEmailReport
    \/ FeedbackLoop

\* One run of main, from any file an earlier run can leave
Spec == Init /\ [][Next]_vars

InitRuns == Init /\ recfile = NoFile

NextRuns ==
    \/ FetchStockData(FewPriceOutcomes)
    \/ FetchNews
    \/ AnalyzeSentiment(FewSentimentOutcomes)
    \/ MakeRecommendations
    \/ StoreRecommendations
    \/ SendEmailReport
    \/ FeedbackLoop
    \/ RunAgain

\* Runs of main one after the other, from a directory with no file
SpecRuns == InitRuns /\ [][NextRuns]_vars

---------------------------------------------------------------------------
(* make_recommendations as a function of its two arguments *)

SentimentTexts == {PositiveOutlook, VeryNegative, StronglyPositive, SentimentFailed}

DictsOver(keys, values) == UNION {[ks -> values] : ks \in SUBSET keys}

InitRec ==
    /\ pc = "recommend"
    /\ i = 0
    /\ run = 1
    /\ stock_data \in DictsOver(Range(tickers), SeriesSet(PricePairs))
    /\ priceOutcome = EmptyDict
    /\ news = <<>>
    /\ sentiment_analysis \in DictsOver(Range(tickers), SentimentTexts)
    /\ recommendations = <<>>
    /\ matched = <<>>
    /\ recfile = NoFile
    /\ file0 = NoFile
    /\ storeStatus = "none"
    /\ mail = NoMail
    /\ feedback = <<>>
    /\ trace = <<>>

NextRec == MakeRecommendations

SpecRec == InitRec /\ [][NextRec]_vars

---------------------------------------------------------------------------
(* weekly_stock_agent.run_stock_agent, step by step *)

InitWeekly ==
    /\ pc = "w_analyze"
    /\ i = 1
    /\ run = 1
    /\ stock_data = EmptyDict
    /\ priceOutcome = EmptyDict
    /\ news = <<>>
    /\ sentiment_analysis = EmptyDict
    /\ recommendations = <<>>
    /\ matched = <<>>
    /\ recfile = NoFile
    /\ file0 = NoFile
    /\ storeStatus = "none"
    /\ mail = NoMail
    /\ feedback = <<>>
    /\ trace = <<>>

\* analyze_returns, one ticker; stock_data keeps the local `data` as history
AnalyzeReturns ==
    /\ pc = "w_analyze"
    /\ \E got \in WeeklyPriceOutcomes :
        LET t == get_nifty_100_stocks[i]
            r == analyze_one(matched, t, got)
            nx == AfterWeekly(pc, i, r.escaped)
        IN  /\ matched' = r.matched
            /\ priceOutcome' = Put(priceOutcome, t, OutcomeKind(got))
            /\ stock_data' = IF got.kind = "raise" THEN stock_data
                             ELSE Put(stock_data, t, got.data)
            /\ trace' = Append(trace, Step("price", t))
            /\ pc' = nx[1]
            /\ i' = nx[2]
    /\ UNCHANGED <<run, news, sentiment_analysis, recommendations, recfile,
                   file0, storeStatus, mail, feedback>>

\* return sorted(recommendations, key=lambda x: -x['change'])[:2]
RankReturns ==
    /\ pc = "w_rank"
    /\ LET nx == AfterWeekly(pc, i, FALSE)
       IN  /\ recommendations' = top_picks(matched)
           /\ trace' = Append(trace, Step("rank", ""))
           /\ pc' = nx[1]
           /\ i' = nx[2]
    /\ UNCHANGED <<run, stock_data, priceOutcome, news, sentiment_analysis,
                   matched, recfile, file0, storeStatus, mail, feedback>>

\* send_email(picks)
SendEmail ==
    /\ pc = "w_email"
    /\ \E smtp \in SmtpOutcomes :
        LET r == send_email(recommendations, smtp)
            nx == AfterWeekly(pc, i, r.escaped)
        IN  /\ mail' = [status |-> r.status, body |-> r.body]
            /\ trace' = Append(trace, Step("email", ""))
            /\ pc' = nx[1]
            /\ i' = nx[2]
    /\ UNCHANGED <<run, stock_data, priceOutcome, news, sentiment_analysis,
                   recommendations, matched, recfile, file0, storeStatus, feedback>>

NextWeekly ==
    \/ AnalyzeReturns
    \/ RankReturns
    \/ SendEmail

SpecWeekly == InitWeekly /\ [][NextWeekly]_vars

---------------------------------------------------------------------------
(* Claims about make_recommendations (SpecRec) *)

\* needle occurs in hay when the case of letters is ignored
OccursIgnoringCase(needle, hay) ==
    \E k \in 0..(Len(hay) - Len(needle)) :
        \A j \in 1..Len(needle) : hay[k + j] \in {needle[j], UpperChars[
            CHOOSE n \in 1..Len(LowerChars) : LowerChars[n] = needle[j]]}

\* the number of records of recs that are about ticker t
TimesListed(recs, t) == Cardinality({k \in 1..Len(recs) : recs[k].ticker = t})

\* the rule of inclusion, on the inputs: at least 2 bars, a percent change
\* that exists and is at least 5, and a sentiment that mentions "positive"
Qualifies(sd, sa, t) ==
    /\ Len(sd[t]) >= 2
    /\ sd[t][1].Open > 0
    /\ 100 * (sd[t][Len(sd[t])].Close - sd[t][1].Open) >= 5 * sd[t][1].Open
    /\ t \in DOMAIN sa
    /\ OccursIgnoringCase(Positive, sa[t])

\* C1: once make_recommendations has returned, a ticker of the price mapping
\* is in the list, exactly once, if and only if its series has at least 2 bars,
\* its percent change is at least 5 and its sentiment text contains "positive"
\* in any case; no other ticker is listed.  100.0 -> 105.0 with "Positive
\* outlook" is listed, 625.0 -> 656.1875 (4.99%) and "very negative" are not.
C1_InclusionRule ==
    pc = "store" =>
        /\ \A t \in DOMAIN stock_data :
              TimesListed(recommendations, t) =
                  IF Qualifies(stock_data, sentiment_analysis, t) THEN 1 ELSE 0
        /\ \A k \in 1..Len(recommendations) :
              recommendations[k].ticker \in DOMAIN stock_data
        /\ \A t \in DOMAIN stock_data :
              /\ (/\ stock_data[t] = SeriesOf(2, 1600, 1680)
                  /\ Get(sentiment_analysis, t, <<>>) = PositiveOutlook)
                    => TimesListed(recommendations, t) = 1
              /\ (\/ stock_data[t] = SeriesOf(2, 10000, 10499)
                  \/ Get(sentiment_analysis, t, <<>>) = VeryNegative)
                    => TimesListed(recommendations, t) = 0

\* C1's case: a ticker at exactly 5.00% with "Positive outlook" is listed and
\* a ticker at 4.99% with a positive sentiment is not
C1_Witness ==
    /\ pc = "store"
    /\ \E t, u \in DOMAIN stock_data :
          /\ stock_data[t] = SeriesOf(2, 1600, 1680)
          /\ Get(sentiment_analysis, t, <<>>) = PositiveOutlook
          /\ TimesListed(recommendations, t) = 1
          /\ stock_data[u] = SeriesOf(2, 10000, 10499)
          /\ Get(sentiment_analysis, u, <<>>) = StronglyPositive
          /\ TimesListed(recommendations, u) = 0

\* h hundredths is a nearest number of hundredths to num/den (den > 0)
NearestHundredths(h, num, den) == 2 * Abs(h * den - 100 * num) <= den

\* C6: every record make_recommendations returns carries the percent change
\* from the open of the first bar to the close of the last bar rounded to 2
\* decimals, that open and that close rounded to 2 decimals, and the ticker's
\* sentiment text unchanged; 100 -> 106 with "Strongly positive outlook"
\* gives change 6.0, entry 100.0, exit 106.0, and 100 -> 102 gives no record.
C6_RecordFields ==
    pc = "store" =>
        /\ \A k \in 1..Len(recommendations) :
              LET r == recommendations[k]
                  data == stock_data[r.ticker]
                  first_open == data[1].Open
                  last_close == data[Len(data)].Close
              IN  /\ first_open > 0
                  /\ NearestHundredths(r.change, 100 * (last_close - first_open),
                                       first_open)
                  /\ NearestHundredths(r.entry_price, first_open, 16)
                  /\ NearestHundredths(r.exit_price, last_close, 16)
                  /\ r.sentiment = sentiment_analysis[r.ticker]
        /\ \A t \in DOMAIN stock_data :
              /\ (/\ stock_data[t] = SeriesOf(2, 1600, 1696)
                  /\ Get(sentiment_analysis, t, <<>>) = StronglyPositive)
                    => \E k \in 1..Len(recommendations) :
                          recommendations[k] =
                              [ticker |-> t, change |-> 600, entry_price |-> 10000,
                               exit_price |-> 10600, sentiment |-> StronglyPositive]
              /\ stock_data[t] = SeriesOf(2, 1600, 1632)
                    => TimesListed(recommendations, t) = 0

\* C6's case: a record whose prices and change are not whole hundredths
\* (100.0625 -> 106.4375) beside the record of 100 -> 106
C6_Witness ==
    /\ pc = "store"
    /\ \E j, k \in 1..Len(recommendations) :
          /\ stock_data[recommendations[j].ticker] = SeriesOf(2, 1601, 1703)
          /\ recommendations[j].entry_price = 10006
          /\ recommendations[j].exit_price = 10644
          /\ recommendations[j].change = 637
          /\ recommendations[k].change = 600
          /\ recommendations[k].sentiment = StronglyPositive

---------------------------------------------------------------------------
(* Claims about one run of StockAgent.main (Spec) *)

IsPrefix(s, t) == Len(s) <= Len(t) /\ SubSeq(t, 1, Len(s)) = s

\* fetch_stock_data has returned
PricesFetched ==
    pc \in {"news", "sentiment", "recommend", "store", "email", "feedback", "done"}

\* C2, as claimed: fetch_stock_data returns an entry for every input ticker,
\* and a ticker whose fetch failed or returned nothing has an empty series
C2_EntryForEveryTicker ==
    /\ pc # "raised"
    /\ PricesFetched =>
          /\ DOMAIN stock_data = Range(tickers)
          /\ \A t \in Range(tickers) :
                priceOutcome[t] \in {"raise", "empty"} => stock_data[t] = <<>>

\* C2, amended: fetch_stock_data never raises; the mapping it builds has an
\* entry exactly for the tickers whose download did not raise, an empty series
\* for a download that returned nothing, and no entry for a failed download
C2_EntryUnlessFetchFailed ==
    /\ pc # "raised"
    /\ pc = "prices" => DOMAIN priceOutcome = {tickers[k] : k \in 1..(i - 1)}
    /\ PricesFetched => DOMAIN priceOutcome = Range(tickers)
    /\ DOMAIN stock_data = {t \in DOMAIN priceOutcome : priceOutcome[t] # "raise"}
    /\ \A t \in DOMAIN stock_data : (priceOutcome[t] = "empty") = (stock_data[t] = <<>>)

\* C2's case: the batch is over, one download failed and another returned nothing
C2_Witness ==
    /\ PricesFetched
    /\ \E t, u \in Range(tickers) :
          /\ priceOutcome[t] = "raise"
          /\ t \notin DOMAIN stock_data
          /\ priceOutcome[u] = "empty"
          /\ stock_data[u] = <<>>

\* the lines store_recommendations writes for recs at time now
LinesOf(recs, now) == [k \in 1..Len(recs) |-> [time |-> now, rec |-> recs[k]]]

\* C3: whatever fails, no exception leaves a step of main, a run that is not
\* over always has a next step, and the run ends after the feedback step; an
\* e-mail failure leaves the appended lines in recommendations.txt, and an
\* append failure does not stop the e-mail attempt
C3_FailuresSwallowed ==
    /\ pc # "raised"
    /\ pc # "done" => ENABLED Next
    /\ pc = "done" =>
          /\ trace # <<>>
          /\ trace[Len(trace)].step = "feedback"
          /\ mail.status \in {"sent", "failed"}
          /\ storeStatus \in {"ok", "failed"}
    /\ (pc \in {"feedback", "done"} /\ mail.status = "failed" /\ storeStatus = "ok") =>
          recfile.lines = file0.lines \o LinesOf(recommendations, run)
    /\ (pc \in {"feedback", "done"} /\ storeStatus = "failed") =>
          mail.status \in {"sent", "failed"}

\* C3's case: a run that ended although a price fetch, a sentiment call and
\* the mail client failed, with its recommendation in the file
C3_Witness ==
    /\ pc = "done"
    /\ mail.status = "failed"
    /\ storeStatus = "ok"
    /\ recommendations # <<>>
    /\ \E t \in Range(tickers) : priceOutcome[t] = "raise"
    /\ \E t \in Range(tickers) : sentiment_analysis[t] = SentimentFailed
    /\ recfile.lines = file0.lines \o LinesOf(recommendations, run)

\* every price fetch of the run returned an empty series
AllSeriesEmpty ==
    /\ DOMAIN priceOutcome = Range(tickers)
    /\ \A t \in Range(tickers) : priceOutcome[t] = "empty"

\* C4, as claimed: with only empty series the list is empty, the store is
\* as the run found it (nothing appended, no file created) and the e-mail
\* body is exactly the "no picks" message
C4_StoreUntouchedBodyNoPicks ==
    (pc = "done" /\ AllSeriesEmpty) =>
        /\ recommendations = <<>>
        /\ recfile = file0
        /\ mail.body = <<NoPicks>>

\* C4, amended: with only empty series the list is empty, no line is added
\* to recommendations.txt (a missing file is created empty when it can be
\* opened), the e-mail body is the "no picks" message followed by the heading
\* of the summary table with no rows, and no step raises
C4_NothingAppendedBodyNoPicksAndHeading ==
    /\ AllSeriesEmpty => pc # "raised"
    /\ (pc = "done" /\ AllSeriesEmpty) =>
          /\ recommendations = <<>>
          /\ recfile.lines = file0.lines
          /\ recfile.exists = (file0.exists \/ storeStatus = "ok")
          /\ mail.status \in {"sent", "failed"}
          /\ mail.body = <<NoPicks>> \o TableHead

\* C4's case: a finished run with only empty series that found no file
C4_Witness ==
    /\ pc = "done"
    /\ AllSeriesEmpty
    /\ ~file0.exists
    /\ recfile = [exists |-> TRUE, lines |-> <<>>]
    /\ mail.status = "sent"

HasSufficientData(t) == t \in DOMAIN stock_data /\ Len(stock_data[t]) >= 2

\* the tickers of the rows of a body, in order
RowTickers(body) ==
    LET rows == {k \in 1..Len(body) : body[k].kind = "row"}
        nth(n) == CHOOSE k \in rows : Cardinality({j \in rows : j < k}) = n - 1
    IN  [n \in 1..Cardinality(rows) |-> body[nth(n)].ticker]

\* C7: the body of the report ends with the summary table, which has one
\* row for each ticker whose series has at least 2 bars and no other row
C7_RowsForSufficientData ==
    mail.status # "none" =>
        LET want == SelectSeq(tickers, HasSufficientData)
            n == Len(mail.body)
        IN  /\ RowTickers(mail.body) = want
            /\ n >= Len(TableHead) + Len(want)
            /\ SubSeq(mail.body, n - Len(want) - Len(TableHead) + 1, n - Len(want))
                  = TableHead
            /\ \A k \in (n - Len(want) + 1)..n : mail.body[k].kind = "row"

\* the order of the steps of a run of main
ExpectedTrace ==
    [k \in 1..Len(tickers) |-> [step |-> "price", ticker |-> tickers[k]]]
        \o [k \in 1..(2 * Len(tickers)) |->
                [step |-> IF k % 2 = 1 THEN "news" ELSE "sentiment",
                 ticker |-> tickers[(k + 1) \div 2]]]
        \o << [step |-> "recommend", ticker |-> ""], [step |-> "store", ticker |-> ""],
              [step |-> "email", ticker |-> ""], [step |-> "feedback", ticker |-> ""] >>

\* C9: the steps of a run happen in one order: every price fetch, then news
\* and sentiment ticker by ticker, then the recommendation pass, persistence,
\* the e-mail and feedback; feedback is written only after the e-mail step
C9_StepOrder ==
    /\ IsPrefix(trace, ExpectedTrace)
    /\ pc = "done" => trace = ExpectedTrace
    /\ feedback # <<>> => mail.status \in {"sent", "failed"}
    /\ \A k \in 1..Len(trace) :
          trace[k].step \in {"news", "sentiment"} => k > Len(tickers)

\* C9's case: a finished run whose e-mail failed and whose feedback was saved
C9_Witness ==
    /\ pc = "done"
    /\ trace = ExpectedTrace
    /\ mail.status = "failed"
    /\ feedback # <<>>

---------------------------------------------------------------------------
(* Claims about runs of StockAgent.main one after the other (SpecRuns) *)

\* C8: recommendations.txt only grows at its end: no step removes or changes
\* a line or the file, and a store that succeeds adds exactly the lines of the
\* run's recommendations, in order, whatever the file already holds
C8_AppendOnly ==
    [][ /\ IsPrefix(recfile.lines, recfile'.lines)
        /\ recfile.exists => recfile'.exists
        /\ (pc = "store" /\ storeStatus' = "ok") =>
              recfile'.lines = recfile.lines \o LinesOf(recommendations, run)
        /\ pc # "store" => recfile' = recfile ]_vars

\* C8's case: a second run has stored the record the first run stored
C8_Witness ==
    /\ run = 2
    /\ storeStatus = "ok"
    /\ recommendations # <<>>
    /\ \E j, k \in 1..Len(recfile.lines) :
          /\ j < k
          /\ recfile.lines[j].rec = recfile.lines[k].rec
          /\ recfile.lines[j].time = 1
          /\ recfile.lines[k].time = 2

---------------------------------------------------------------------------
(* Claims about weekly_stock_agent.run_stock_agent (SpecWeekly) *)

\* no downloaded series opens at zero
NoZeroOpen == \A t \in DOMAIN stock_data : stock_data[t] = <<>> \/ stock_data[t][1].Open > 0

\* C5: a failure of the price provider for one ticker does not abort the
\* batch: when the run is over every ticker has been analysed and the
\* e-mail has been attempted
C5_FailureDoesNotAbort ==
    (pc \in {"done", "raised"} /\ NoZeroOpen) =>
        /\ DOMAIN priceOutcome = Range(get_nifty_100_stocks)
        /\ mail.status \in {"sent", "failed"}

\* the weekly rule on the inputs: at least 5 bars and a percent change of at least 5
WeeklyMatch(t) ==
    /\ t \in DOMAIN stock_data
    /\ Len(stock_data[t]) >= 5
    /\ stock_data[t][1].Open > 0
    /\ 100 * (stock_data[t][Len(stock_data[t])].Close - stock_data[t][1].Open)
          >= 5 * stock_data[t][1].Open

\* C10: what analyze_returns returns has at most 2 entries, of distinct
\* matching tickers, in non-increasing order of change, each with a percent
\* change of at least 5, and no match left out has a larger change
C10_RankedTop2 ==
    pc \in {"w_email", "done"} =>
        LET picks == recommendations
            left == {m \in Range(matched) : m \notin Range(picks)}
        IN  /\ Len(picks) = IF Len(matched) < 2 THEN Len(matched) ELSE 2
            /\ \A k \in 1..(Len(picks) - 1) : picks[k].change >= picks[k + 1].change
            /\ \A j, k \in 1..Len(picks) : picks[j].ticker = picks[k].ticker => j = k
            /\ \A k \in 1..Len(picks) :
                  /\ picks[k] \in Range(matched)
                  /\ WeeklyMatch(picks[k].ticker)
                  /\ picks[k].change >= 500
            /\ {m.ticker : m \in Range(matched)} =
                  {t \in Range(get_nifty_100_stocks) : WeeklyMatch(t)}
            /\ \A m \in left : \A k \in 1..Len(picks) : m.change <= picks[k].change

\* C10's case: three tickers match, the last one downloaded has the largest
\* change and is returned first, and the smallest is left out
C10_Witness ==
    /\ pc = "done"
    /\ Len(matched) = 3
    /\ Len(recommendations) = 2
    /\ recommendations[1] = matched[3]
    /\ recommendations[1].change > recommendations[2].change
    /\ \E m \in Range(matched) :
          m \notin Range(recommendations) /\ m.change < recommendations[2].change

=============================================================================
